---- MODULE Spec2Model ----
(***************************************************************************)
(* Model of the linear byte buffers of tincan: buf::LinearBuf              *)
(* (src/src/buf/linear.rs) and buffer::Buffer (src/src/buffer.rs), with    *)
(* their reader and writer views.                                          *)
(*                                                                         *)
(* A buffer value is a record                                              *)
(*   kind        "LinearBuf" or "Buffer"                                   *)
(*   bytes       the contents of the heap block `bytes` points to, one     *)
(*               cell per allocated byte (<<>> for NonNull::dangling());   *)
(*               a cell is a byte 0..255 or Uninit                         *)
(*   capacity, input_idx, output_idx   the struct's fields                 *)
(* usize is modelled with a reduced width: values 0..UsizeMax, arithmetic  *)
(* modulo UsizeMax + 1, and isize::MAX = IsizeMax = (UsizeMax - 1) / 2.    *)
(***************************************************************************)
EXTENDS Integers, Sequences, FiniteSets, TLC

\* ------------------------------------------------------------------ bounds

\* isize::MAX of the reduced machine word.
IsizeMax == 4
\* The most bytes a run marks as written in total.
MaxData == 3
\* The longest storage a write guard is made over.
MaxGuard == 3

UsizeMax == 2 * IsizeMax + 1
Modulus == UsizeMax + 1
Usize == 0..UsizeMax

\* ------------------------------------------------------------- primitives

\* A cell of MaybeUninit<u8> storage that was never written.
Uninit == -1

Kinds == {"LinearBuf", "Buffer"}

min(a, b) == IF a <= b THEN a ELSE b

max(a, b) == IF a >= b THEN a ELSE b

\* New cells left as the allocator gives them, in both variants (alloc and
\* realloc without zeroing).
FreshCell_never_zeroed(kind) == Uninit

\* What a fresh cell of a new allocation holds: alloc() leaves it uninitialized,
\* alloc_zeroed() and the write_bytes after realloc() make it zero.
FreshCell(kind) == IF kind = "LinearBuf" THEN Uninit ELSE 0

\* The k-th byte (from 0) of the payload the tests pump through a buffer.
SrcByte(k) == (1 + 3 * k) % 256

Prefix(s, k) == SubSeq(s, 1, k)

IsPrefix(s, t) == Len(s) <= Len(t) /\ s = Prefix(t, Len(s))

\* ------------------------------------------------------------- accessors

new(kind) ==
  [kind |-> kind, bytes |-> <<>>, capacity |-> 0, input_idx |-> 0, output_idx |-> 0]

is_empty(b) == b.input_idx = b.output_idx

capacity_in(b) == b.capacity - b.input_idx

len(b) == b.input_idx - b.output_idx

capacity_min(b) == b.capacity - b.output_idx

full_slice(b) == b.bytes

output_slice(b) == SubSeq(full_slice(b), b.output_idx + 1, b.input_idx)

\* The cursors index the block: the precondition of every slice the code forms.
InBounds(b) ==
  /\ b.output_idx <= b.input_idx
  /\ b.input_idx <= b.capacity
  /\ Len(b.bytes) = b.capacity

\* ------------------------------------------------------------ allocation

\* The block after realloc(ptr, old_layout, n): the common prefix is kept,
\* bytes beyond the old size are fresh.
Resized(b, n) ==
  [i \in 1..n |-> IF i <= Len(b.bytes) THEN b.bytes[i] ELSE FreshCell(b.kind)]

\* realloc that records the new capacity although the allocator failed.
realloc_commits_on_failure(b, len0, alloc_ok) ==
  LET n == min(len0, IsizeMax) IN
  IF n = b.capacity THEN [b |-> b, ret |-> TRUE, asked |-> FALSE]
  ELSE IF b.capacity > 0 /\ n = 0
  THEN [b |-> [b EXCEPT !.bytes = <<>>, !.capacity = n], ret |-> TRUE, asked |-> FALSE]
  ELSE IF alloc_ok
  THEN [b |-> [b EXCEPT !.bytes = Resized(b, n), !.capacity = n], ret |-> TRUE, asked |-> TRUE]
  ELSE [b |-> [b EXCEPT !.capacity = n], ret |-> FALSE, asked |-> TRUE]

\* realloc(len); alloc_ok is what the allocator answers if it is asked.
\* Returns the buffer, the bool the function returns, and whether alloc() or
\* realloc() was called (asked).
realloc(b, len0, alloc_ok) ==
  LET n == min(len0, IsizeMax) IN
  IF n = b.capacity THEN [b |-> b, ret |-> TRUE, asked |-> FALSE]
  ELSE IF b.capacity > 0 THEN
    IF n > 0 THEN
      IF alloc_ok
      THEN [b |-> [b EXCEPT !.bytes = Resized(b, n), !.capacity = n],
            ret |-> TRUE, asked |-> TRUE]
      ELSE [b |-> b, ret |-> FALSE, asked |-> TRUE]
    ELSE [b |-> [b EXCEPT !.bytes = <<>>, !.capacity = n], ret |-> TRUE, asked |-> FALSE]
  ELSE
    IF alloc_ok
    THEN [b |-> [b EXCEPT !.bytes = [i \in 1..n |-> FreshCell(b.kind)], !.capacity = n],
          ret |-> TRUE, asked |-> TRUE]
    ELSE [b |-> b, ret |-> FALSE, asked |-> TRUE]

\* How an allocation went, for the record of a call.
AllocOutcome(r) == IF ~r.asked THEN "none" ELSE IF r.ret THEN "ok" ELSE "failed"

\* with_capacity that takes the allocation for granted.
with_capacity_assumes_success(kind, cap, alloc_ok) ==
  LET r == realloc(new(kind), cap, alloc_ok)
  IN [b |-> [r.b EXCEPT !.capacity = min(cap, IsizeMax)], alloc |-> AllocOutcome(r)]

with_capacity(kind, cap, alloc_ok) ==
  LET r == realloc(new(kind), cap, alloc_ok) IN [b |-> r.b, alloc |-> AllocOutcome(r)]

\* Drop::drop: the sizes of the layouts it hands to dealloc, one per call.
drop(b) == IF b.capacity > 0 THEN <<b.capacity>> ELSE <<>>

\* ------------------------------------------------------------ compaction

\* slice.copy_within(output_idx..input_idx, 0): a memmove.
copy_within(s, from, to) ==
  [i \in 1..Len(s) |-> IF i <= to - from THEN s[from + i] ELSE s[i]]

\* shift_to_start that moves the cursors and forgets the memmove.
shift_to_start_no_copy(b) ==
  IF b.output_idx = 0 THEN [b |-> b, ret |-> capacity_in(b)]
  ELSE [b |-> [b EXCEPT !.input_idx = b.input_idx - b.output_idx, !.output_idx = 0],
        ret |-> b.capacity + b.output_idx - b.input_idx]

shift_to_start(b) ==
  IF b.output_idx = 0 THEN [b |-> b, ret |-> capacity_in(b)]
  ELSE [b |-> [b EXCEPT !.bytes = copy_within(b.bytes, b.output_idx, b.input_idx),
                        !.input_idx = b.input_idx - b.output_idx,
                        !.output_idx = 0],
        ret |-> b.capacity + b.output_idx - b.input_idx]

\* ------------------------------------------------------------ reservation

\* reserve that grows to max(capacity, bytes), forgetting the bytes already held.
reserve_forgets_held(b, n, alloc_ok, checks) ==
  IF capacity_in(b) < n THEN
    LET s == shift_to_start(b) IN
    IF s.ret < n THEN
      LET r == realloc(s.b, min(max(s.b.capacity, n), IsizeMax), alloc_ok) IN
      [b |-> r.b, ret |-> r.ret, panic |-> FALSE, alloc |-> AllocOutcome(r)]
    ELSE [b |-> s.b, ret |-> TRUE, panic |-> FALSE, alloc |-> "none"]
  ELSE [b |-> b, ret |-> TRUE, panic |-> FALSE, alloc |-> "none"]

\* reserve that gives up the compaction when the allocation fails.
reserve_rolls_back(b, n, alloc_ok, checks) ==
  IF capacity_in(b) < n /\ b.capacity - len(b) < n /\ ~alloc_ok
     /\ min(b.capacity + len(b) + n, IsizeMax) # b.capacity
  THEN [b |-> b, ret |-> FALSE, panic |-> FALSE, alloc |-> "failed"]
  ELSE IF capacity_in(b) < n THEN
    LET s == shift_to_start(b) IN
    IF s.ret < n THEN
      LET sum == s.b.capacity + s.b.input_idx + n IN
      IF sum > UsizeMax /\ checks
      THEN [b |-> s.b, ret |-> FALSE, panic |-> TRUE, alloc |-> "none"]
      ELSE LET r == realloc(s.b, min(sum % Modulus, IsizeMax), alloc_ok) IN
           [b |-> r.b, ret |-> r.ret, panic |-> FALSE, alloc |-> AllocOutcome(r)]
    ELSE [b |-> s.b, ret |-> TRUE, panic |-> FALSE, alloc |-> "none"]
  ELSE [b |-> b, ret |-> TRUE, panic |-> FALSE, alloc |-> "none"]

\* reserve that reallocates as soon as the writable region is too small,
\* without trying the compaction.
reserve_without_compaction(b, n, alloc_ok, checks) ==
  IF capacity_in(b) < n THEN
    LET sum == b.capacity + b.input_idx + n IN
    IF sum > UsizeMax /\ checks
    THEN [b |-> b, ret |-> FALSE, panic |-> TRUE, alloc |-> "none"]
    ELSE LET r == realloc(b, min(sum % Modulus, IsizeMax), alloc_ok) IN
         [b |-> r.b, ret |-> r.ret, panic |-> FALSE, alloc |-> AllocOutcome(r)]
  ELSE [b |-> b, ret |-> TRUE, panic |-> FALSE, alloc |-> "none"]

\* reserve(bytes). checks: the build has overflow checks (a debug build), so
\* that an overflowing + panics; without them it wraps.
reserve(b, n, alloc_ok, checks) ==
  IF capacity_in(b) < n THEN
    LET s == shift_to_start(b) IN
    IF s.ret < n THEN
      LET sum == s.b.capacity + s.b.input_idx + n IN
      IF sum > UsizeMax /\ checks
      THEN [b |-> s.b, ret |-> FALSE, panic |-> TRUE, alloc |-> "none"]
      ELSE LET r == realloc(s.b, min(sum % Modulus, IsizeMax), alloc_ok) IN
           [b |-> r.b, ret |-> r.ret, panic |-> FALSE, alloc |-> AllocOutcome(r)]
    ELSE [b |-> s.b, ret |-> TRUE, panic |-> FALSE, alloc |-> "none"]
  ELSE [b |-> b, ret |-> TRUE, panic |-> FALSE, alloc |-> "none"]

\* LinearBufWriter::reserve / BufferWriter::reserve: self.0.reserve(bytes); the
\* bool is dropped and the call returns ().
writer_reserve(b, n, alloc_ok, checks) ==
  LET r == reserve(b, n, alloc_ok, checks) IN [b |-> r.b, panic |-> r.panic, alloc |-> r.alloc]

\* input_slice_mut(min): reserve, then &mut full_slice_mut()[input_idx..], whose
\* bounds check panics when input_idx > capacity. ret is the slice's length.
input_slice_mut(b, n, alloc_ok, checks) ==
  LET r == reserve(b, n, alloc_ok, checks) IN
  IF r.panic \/ r.b.input_idx > r.b.capacity
  THEN [b |-> r.b, ret |-> 0, panic |-> TRUE, alloc |-> r.alloc]
  ELSE [b |-> r.b, ret |-> capacity_in(r.b), panic |-> FALSE, alloc |-> r.alloc]

\* shrink_to_fit that reallocates to min, whatever the readable length.
shrink_to_fit_ignores_len(b, m, alloc_ok) ==
  LET s == shift_to_start(b).b
      r == realloc(s, m, alloc_ok)
  IN [b |-> r.b, alloc |-> AllocOutcome(r)]

shrink_to_fit(b, m, alloc_ok) ==
  LET s == shift_to_start(b).b
      r == realloc(s, max(m, s.input_idx), alloc_ok)
  IN [b |-> r.b, alloc |-> AllocOutcome(r)]

\* --------------------------------------------------------------- cursors

\* The reset of an emptied buffer, forgotten.
Emptied_no_reset(b) == b

Emptied(b) == IF is_empty(b) THEN [b EXCEPT !.output_idx = 0, !.input_idx = 0] ELSE b

consume_unchecked(b, count) ==
  IF count <= len(b)
  THEN [b |-> Emptied([b EXCEPT !.output_idx = b.output_idx + count]), panic |-> FALSE]
  ELSE [b |-> b, panic |-> TRUE]

\* consume that clamps an oversized count instead of asserting.
consume_clamped(b, count) == consume_unchecked(b, min(count, len(b)))

consume(b, count) ==
  IF count <= len(b) THEN consume_unchecked(b, count) ELSE [b |-> b, panic |-> TRUE]

consume_all(b) == [b EXCEPT !.output_idx = 0, !.input_idx = 0]

\* LinearBuf::supply_unchecked: input_idx += count, unchecked but for overflow.
supply_unchecked(b, count, checks) ==
  IF b.input_idx + count > UsizeMax /\ checks THEN [b |-> b, panic |-> TRUE]
  ELSE [b |-> [b EXCEPT !.input_idx = (b.input_idx + count) % Modulus], panic |-> FALSE]

\* Buffer::advance.
advance(b, count) ==
  IF count <= capacity_in(b)
  THEN [b |-> [b EXCEPT !.input_idx = b.input_idx + count], panic |-> FALSE]
  ELSE [b |-> b, panic |-> TRUE]

\* LinearBufWriter::supply / BufferWriter::advance.
supply(b, count, checks) ==
  IF b.kind = "LinearBuf" THEN supply_unchecked(b, count, checks) ELSE advance(b, count)

\* ----------------------------------------------------------------- parse

\* LinearBufReader::parse after the closure returned Ok((_, k)).
linear_parse_ok(b, k, checks) ==
  IF b.output_idx + k > UsizeMax /\ checks THEN [b |-> b, panic |-> TRUE]
  ELSE LET o == (b.output_idx + k) % Modulus IN
       IF o = b.input_idx
       THEN [b |-> [b EXCEPT !.output_idx = 0, !.input_idx = 0], panic |-> FALSE]
       ELSE [b |-> [b EXCEPT !.output_idx = o], panic |-> o > b.input_idx]

\* parse(f) where f returns Ok((_, k)) if f_ok and Err(_) otherwise.
\* ok: parse returned Ok.
parse(b, f_ok, k, checks) ==
  IF ~f_ok THEN [b |-> b, ok |-> FALSE, panic |-> FALSE]
  ELSE LET r == IF b.kind = "LinearBuf" THEN linear_parse_ok(b, k, checks) ELSE consume(b, k)
       IN [b |-> r.b, ok |-> ~r.panic, panic |-> r.panic]

\* The closure shown the block up to capacity instead of up to input_idx.
parse_slice_to_capacity(b) == SubSeq(b.bytes, b.output_idx + 1, b.capacity)

\* The slice parse hands to the closure: from_raw_parts(bytes, input_idx)[output_idx..].
parse_slice(b) == SubSeq(Prefix(b.bytes, b.input_idx), b.output_idx + 1, b.input_idx)

\* ------------------------------------------------------ the caller's writes

\* The writable slice with its first k cells overwritten by the bytes src.
filled(b, src) ==
  [b EXCEPT !.bytes = [i \in 1..Len(b.bytes) |->
     IF b.input_idx < i /\ i <= b.input_idx + Len(src) THEN src[i - b.input_idx] ELSE b.bytes[i]]]

\* The cells a supply of count bytes marks as written.
supplied_cells(b, count) == SubSeq(b.bytes, b.input_idx + 1, b.input_idx + count)

\* The bytes a call takes out of the front of the readable region of b when it
\* moves the read cursor by count.
taken(b, count) == Prefix(output_slice(b), min(count, len(b)))

\* The next k bytes of the payload after the first pos.
Payload(pos, k) == [j \in 1..k |-> SrcByte(pos + j - 1)]

\* The contract of supply/advance after pos payload bytes: count is inside the
\* writable region and the caller has written those cells (the next payload bytes).
SupplyInContract(b, count, pos) ==
  count <= capacity_in(b) /\ supplied_cells(b, count) = Payload(pos, count)

\* ------------------------------------------------------ std::io Read, Write

\* UninitSlice::write_from(src) on a guard of guard_len cells: count is
\* min(guard_len, src_len), and self.0.copy_from_slice(src[..count]) panics unless
\* the whole guard has exactly count cells. ret is the number of bytes written.
write_from(guard_len, src_len) ==
  LET count == min(guard_len, src_len) IN
  IF guard_len = count THEN [ret |-> count, panic |-> FALSE]
  ELSE [ret |-> 0, panic |-> TRUE]

\* buffer.rs copy_partial(output, input): copies and returns min of the lengths.
copy_partial(output_len, input_len) == [ret |-> min(input_len, output_len), panic |-> FALSE]

\* How many bytes a copy from a slice of src_len bytes into one of dst_len moves.
copy_into(kind, dst_len, src_len) ==
  IF kind = "LinearBuf" THEN write_from(dst_len, src_len) ELSE copy_partial(dst_len, src_len)

\* <LinearBuf|Buffer as std::io::Write>::write(src).
std_write(b, src, alloc_ok, checks) ==
  LET r == input_slice_mut(b, Len(src), alloc_ok, checks) IN
  IF r.panic THEN [b |-> r.b, ret |-> 0, panic |-> TRUE, alloc |-> r.alloc]
  ELSE LET c == copy_into(b.kind, r.ret, Len(src)) IN
       IF c.panic THEN [b |-> r.b, ret |-> 0, panic |-> TRUE, alloc |-> r.alloc]
       ELSE LET w == supply(filled(r.b, Prefix(src, c.ret)), c.ret, checks) IN
            [b |-> w.b, ret |-> c.ret, panic |-> w.panic, alloc |-> r.alloc]

\* <LinearBuf|Buffer as std::io::Read>::read(out) with out.len() = n.
std_read(b, n) ==
  LET c == copy_into(b.kind, n, len(b)) IN
  IF c.panic THEN [b |-> b, ret |-> 0, panic |-> TRUE]
  ELSE LET r == IF b.kind = "LinearBuf" THEN consume_unchecked(b, c.ret) ELSE consume(b, c.ret)
       IN [b |-> r.b, ret |-> c.ret, panic |-> r.panic]

\* -------------------------------------------------------- sinks, decoders

\* write_to that empties the buffer whatever the sink accepted.
write_to_consumes_all(b, sink_ok, count) ==
  IF ~sink_ok THEN [b |-> b, ok |-> FALSE, ret |-> 0, panic |-> FALSE]
  ELSE [b |-> consume_all(b), ok |-> TRUE, ret |-> count, panic |-> FALSE]

\* LinearBufReader::write_to / BufferReader::write_to with a sink whose write
\* returns Ok(count) if sink_ok and Err(_) otherwise. ok: it returned Ok(ret).
write_to(b, sink_ok, count) ==
  IF ~sink_ok THEN [b |-> b, ok |-> FALSE, ret |-> 0, panic |-> FALSE]
  ELSE LET r == consume(b, count)
       IN [b |-> r.b, ok |-> ~r.panic, ret |-> count, panic |-> r.panic]

\* A FramedDecoder::decode for messages of msg_len bytes, by parse: its closure
\* returns Err (pending) on a slice shorter than msg_len, and the first msg_len
\* bytes with the count msg_len otherwise.
decode(b, msg_len, checks) == parse(b, Len(parse_slice(b)) >= msg_len, msg_len, checks)

\* ------------------------------------------------------------ UninitSlice
\* A write guard is a record
\*   mem      the storage it was made over, one cell per byte
\*   start    how many cells of mem lie before the guard's pointer
\*   len      the length of the guard's slice (a usize)
\*   alive    the guard was not moved out of (into_zeroed takes self)
\*   written  the cells (indices of mem) the guard zero-filled or copied into
\*   exposed  the cells handed out so far through a &mut [u8]
\* A call returns the guard, its return value ret (a count, or the length of the
\* returned slice), the cells out of the returned slice, and whether it panicked.

\* A byte left in the storage by its previous owner.
Stale == SrcByte(84)

\* The cells of the first k bytes of the guard's slice.
Cells(g, k) == {g.start + j : j \in 1..k}

\* UninitSlice::uninit(mem) / UninitSlice::new(mem).
uninit(mem) ==
  [mem |-> mem, start |-> 0, len |-> Len(mem), alive |-> TRUE, written |-> {}, exposed |-> {}]

\* The guard's slice lies in its storage: the precondition of every access.
GuardInBounds(g) == g.start + g.len <= Len(g.mem)

\* The storage with the first Len(vals) cells of the guard's slice set to vals.
Stored(g, vals) ==
  [g EXCEPT !.mem = [i \in 1..Len(g.mem) |->
      IF g.start < i /\ i <= g.start + Len(vals) THEN vals[i - g.start] ELSE g.mem[i]],
    !.written = g.written \cup Cells(g, Len(vals))]

\* do_advance(to_advance): the pointer moves by to_advance and the length is
\* self.0.len() - to_advance, which panics (checks) or wraps when it underflows.
do_advance(g, k, checks) ==
  IF k > g.len /\ checks THEN [g |-> g, panic |-> TRUE]
  ELSE [g |-> [g EXCEPT !.start = g.start + k, !.len = (g.len - k) % Modulus], panic |-> FALSE]

\* advance that moves by count without clamping it to the length.
uninit_advance_unclamped(g, count, checks) ==
  LET r == do_advance(g, count, checks)
  IN [g |-> r.g, ret |-> max(count, g.len) - g.len, out |-> {}, panic |-> r.panic]

\* UninitSlice::advance(count).
uninit_advance(g, count, checks) ==
  LET to_advance == min(g.len, count)
      r == do_advance(g, to_advance, checks)
  IN [g |-> r.g, ret |-> max(count, g.len) - g.len, out |-> {}, panic |-> r.panic]

\* UninitSlice::write_from(src): copy_from_slice panics unless the guard's whole
\* slice has the length of src[..count].
uninit_write_from(g, src, checks) ==
  LET count == min(g.len, Len(src)) IN
  IF g.len # count THEN [g |-> g, ret |-> 0, out |-> {}, panic |-> TRUE]
  ELSE LET w == Stored(g, Prefix(src, count))
           r == do_advance(w, count, checks)
       IN [g |-> [r.g EXCEPT !.exposed = @ \cup Cells(g, count)],
           ret |-> count, out |-> Cells(g, count), panic |-> r.panic]

\* do_zero with nothing filled.
do_zero_no_fill(g, n) == g

\* do_zero(len): fills the first len cells of the guard's slice with zero.
do_zero(g, n) == Stored(g, [j \in 1..n |-> 0])

\* UninitSlice::zeroed(len).
uninit_zeroed(g, n) ==
  LET k == min(n, g.len)
  IN [g |-> [do_zero(g, k) EXCEPT !.exposed = @ \cup Cells(g, k)],
      ret |-> k, out |-> Cells(g, k), panic |-> FALSE]

\* UninitSlice::into_zeroed(self).
uninit_into_zeroed(g) ==
  [g |-> [do_zero(g, g.len) EXCEPT !.exposed = @ \cup Cells(g, g.len), !.alive = FALSE],
   ret |-> g.len, out |-> Cells(g, g.len), panic |-> FALSE]

\* UninitSlice::write_with(max, f), with a closure f that writes the bytes fw
\* into the front of the slice it is given and returns written.
uninit_write_with(g, mx, fw, written, checks) ==
  LET z == uninit_zeroed(g, mx)
      f == [Stored(z.g, Prefix(fw, min(Len(fw), z.ret))) EXCEPT !.written = z.g.written]
  IN IF written > mx THEN [g |-> f, ret |-> 0, out |-> z.out, panic |-> TRUE]
     ELSE LET r == do_advance(f, written, checks)
          IN [g |-> r.g, ret |-> written, out |-> z.out, panic |-> r.panic]

\* -------------------------------------------------------------------- clone
\* Clone::clone: a buffer of capacity_min() bytes, then the readable bytes
\* copied into its writable slice (input_slice_mut(len)); its cursors are not
\* touched after that. LinearBuf copies len bytes with copy_nonoverlapping,
\* which writes past the slice when the slice is shorter (ub); Buffer copies
\* with copy_from_slice, which panics unless the slice is exactly len long.
clone(b, alloc_ok, realloc_ok, checks) ==
  LET made == with_capacity(b.kind, capacity_min(b), alloc_ok)
      dest == input_slice_mut(made.b, len(b), realloc_ok, checks)
      copied == filled(dest.b, output_slice(b))
  IN IF dest.panic THEN [c |-> dest.b, panic |-> TRUE, ub |-> FALSE]
     ELSE IF b.kind = "LinearBuf"
          THEN IF dest.ret < len(b) THEN [c |-> dest.b, panic |-> FALSE, ub |-> TRUE]
               ELSE [c |-> copied, panic |-> FALSE, ub |-> FALSE]
          ELSE IF dest.ret # len(b) THEN [c |-> dest.b, panic |-> TRUE, ub |-> FALSE]
               ELSE [c |-> copied, panic |-> FALSE, ub |-> FALSE]

\* ------------------------------------------------------ references and views
\* A reference to the buffer: the type it points to ("Buf" for LinearBuf or
\* Buffer, "Reader" for LinearBufReader or BufferReader, "Writer" for
\* LinearBufWriter or BufferWriter, "slice" for the readable [u8]) and
\* whether it is a &mut. origin is the view the caller started from ("Buf" for
\* the owner of the buffer).

Owner == [origin |-> "Buf", type |-> "Buf", mut |-> TRUE]

\* LinearBuf::reader / Buffer::reader and LinearBuf::writer / Buffer::writer:
\* a &mut to the buffer reborrowed as a &mut to the view.
reader(v) == [origin |-> IF v.origin = "Buf" THEN "Reader" ELSE v.origin,
              type |-> "Reader", mut |-> TRUE]

writer(v) == [origin |-> IF v.origin = "Buf" THEN "Writer" ELSE v.origin,
              type |-> "Writer", mut |-> TRUE]

\* The types with a Deref impl and their targets: both views deref to the
\* buffer, the buffer derefs to its readable slice.
HasDeref(kind, type) == type \in {"Buf", "Reader", "Writer"}

\* The types with a DerefMut impl: the buffer, and of the views LinearBufWriter alone.
HasDerefMut(kind, type) == type = "Buf" \/ (type = "Writer" /\ kind = "LinearBuf")

Target(type) == IF type = "Buf" THEN "slice" ELSE "Buf"

deref(v) == [v EXCEPT !.type = Target(v.type), !.mut = FALSE]

deref_mut(v) == [v EXCEPT !.type = Target(v.type)]

\* ------------------------------------------------------------------- IoRepr
\* The scaled c_ulong::MAX of the Windows layout: below isize::MAX, as the 32-bit
\* field is on a 64-bit target.
UlongMax == IsizeMax \div 2

Layouts == {"unix", "win"}

\* A reference to a slice has at most isize::MAX bytes, a raw slice pointer
\* (*const [u8], *mut [u8]) has any length.
\* The types that convert to a pointer to bytes: a raw pointer to a slice, a
\* reference to a slice, or the write guard (UninitSlice, which wraps a
\* &mut [MaybeUninit<u8>]); mutable or not; over u8 or MaybeUninit<u8>.
Type(ptr, mut, elem) == [ptr |-> ptr, mut |-> mut, elem |-> elem]

UninitSliceType == Type("guard", TRUE, "MaybeUninit<u8>")

\* The impl blocks of each capability trait.
BytesPtr ==
  {Type(p, m, e) : p \in {"raw", "ref"}, m \in BOOLEAN, e \in {"u8", "MaybeUninit<u8>"}}
    \cup {UninitSliceType}

BytesPtrMut ==
  {Type("raw", TRUE, "u8"), Type("raw", TRUE, "MaybeUninit<u8>"),
   Type("ref", TRUE, "u8"), Type("ref", TRUE, "MaybeUninit<u8>"), UninitSliceType}

\* A ReadSafe that also tags &mut [MaybeUninit<u8>].
ReadSafe_tags_uninit ==
  {Type("ref", FALSE, "u8"), Type("ref", TRUE, "u8"), Type("ref", TRUE, "MaybeUninit<u8>")}

ReadSafe == {Type("ref", FALSE, "u8"), Type("ref", TRUE, "u8")}

WriteSafe == {Type("ref", TRUE, "u8"), Type("ref", TRUE, "MaybeUninit<u8>"), UninitSliceType}

MutSafe == {Type("ref", TRUE, "u8")}

\* The values IoRepr::new takes: a type, a start address and a length; raw is
\* whether the type is a raw pointer.
BytesPtrValues ==
  {x \in [ptr : {0, 1}, len : Usize, raw : BOOLEAN, type : BytesPtr] :
     /\ x.raw = (x.type.ptr = "raw")
     /\ x.ptr + x.len <= UsizeMax
     /\ ~x.raw => x.len <= IsizeMax}

IoSliceUnix_new(ptr, n) == [layout |-> "unix", ptr |-> ptr, len |-> n]

\* A length field that wraps instead (len as c_ulong).
IoSliceWin_new_wraps(ptr, n) == [layout |-> "win", ptr |-> ptr, len |-> n % (UlongMax + 1)]

IoSliceWin_new(ptr, n) == [layout |-> "win", ptr |-> ptr, len |-> min(n, UlongMax)]

\* advance returns the slice, the shortfall (0 for None) and whether it panicked;
\* the try_into().unwrap() calls come before any assignment.
IoSliceUnix_advance(s, n) ==
  LET offset == min(n, s.len) IN
  IF offset > IsizeMax THEN [s |-> s, ret |-> 0, panic |-> TRUE]
  ELSE [s |-> [s EXCEPT !.ptr = (s.ptr + offset) % Modulus, !.len = max(s.len - n, 0)],
        ret |-> max(n - s.len, 0), panic |-> FALSE]

IoSliceWin_advance(s, n) ==
  IF n > UlongMax THEN [s |-> s, ret |-> 0, panic |-> TRUE]
  ELSE LET offset == min(n, s.len) IN
       IF offset > IsizeMax THEN [s |-> s, ret |-> 0, panic |-> TRUE]
       ELSE [s |-> [s EXCEPT !.ptr = (s.ptr + offset) % Modulus, !.len = max(s.len - n, 0)],
             ret |-> max(n - s.len, 0), panic |-> FALSE]

IoRepr_new(layout, x) ==
  IF layout = "win" THEN IoSliceWin_new(x.ptr, x.len) ELSE IoSliceUnix_new(x.ptr, x.len)

IoRepr_advance(s, n) ==
  IF s.layout = "win" THEN IoSliceWin_advance(s, n) ELSE IoSliceUnix_advance(s, n)

\* IoRepr::as_ptr: the slice pointer to the described range.
as_ptr(s) == [ptr |-> s.ptr, len |-> s.len]

\* IoRepr::into_inner: the value rebuilt from the stored pointer and length.
into_inner(s, raw) == [ptr |-> s.ptr, len |-> s.len, raw |-> raw]

\* An IoRepr made from x: repr is the IoRepr, x the value it was made from,
\* k the total of the advances it returned from.
Made(layout, x) == [repr |-> IoRepr_new(layout, x), x |-> x, k |-> 0]

\* ---------------------------------------------------------------- io_test
\* The capacity io_test makes its buffer with: less than the bytes it pumps.
PumpCapacity == 1

\* The loop of io_test: where it is (pc), its two rates, the length of its
\* source, and should_loop.
Pumping(pc, in_rate, out_rate, total, should_loop) ==
  [pc |-> pc, in_rate |-> in_rate, out_rate |-> out_rate, total |-> total,
   should_loop |-> should_loop]

\* No loop is running.
Idle == Pumping("idle", 0, 0, 0, FALSE)

\* UninitSlice::uninit(writable slice).into_zeroed(): the writable cells zeroed.
zero_writable(b) ==
  [b EXCEPT !.bytes = [i \in 1..Len(b.bytes) |-> IF i > b.input_idx THEN 0 ELSE b.bytes[i]]]

\* The input half of a round: the buffer after it, the bytes it took from the
\* source (of which pos were taken before), and whether it panicked. Only the
\* LinearBuf loop zeroes the slice it reads into. s is input_slice_mut's
\* result and w supply's, each computed once.
pump_input(b, in_rate, total, pos, checks) ==
  CHOOSE result \in
    {IF s.panic THEN [b |-> s.b, read |-> <<>>, panic |-> TRUE]
     ELSE LET byte_count == min(min(s.ret, in_rate), total - pos)
              read == Payload(pos, byte_count)
              slice == IF s.b.kind = "LinearBuf" THEN zero_writable(s.b) ELSE s.b
          IN CHOOSE after \in
               {[b |-> w.b, read |-> read, panic |-> w.panic] :
                  w \in {supply(filled(slice, read), byte_count, checks)}} : TRUE :
       s \in {input_slice_mut(b, in_rate, TRUE, checks)}} : TRUE

\* The output half of a round: the buffer after it and the bytes the sink took.
pump_output(b, out_rate) ==
  LET n == min(len(b), out_rate)
      r == consume(b, n)
  IN [b |-> r.b, written |-> taken(b, n), panic |-> r.panic]

\* ------------------------------------------------------------------ state

VARIABLES
  buf,             \* the buffer
  overflow_checks, \* the build panics on integer overflow (debug) or wraps (release)
  panicked,        \* the last call panicked
  in_contract,     \* no call so far broke its caller contract
  supplied,        \* history: the bytes marked written, in order
  consumed,        \* history: the bytes taken out of the readable region, in order
  last,            \* the last call (see Call)
  guard,           \* a write guard (see UninitSlice)
  view,            \* the reference the caller holds to the buffer (see Owner)
  io,              \* an IoRepr with the value it was made from (see Made)
  twin,            \* a Buffer run side by side with buf (see PairSpec)
  pump             \* the loop of io_test around the buffer (see PumpSpec)

vars ==
  <<buf, overflow_checks, panicked, in_contract, supplied, consumed, last, guard, view, io,
    twin, pump>>

\* The record of a call: its name, its argument, the buffer it was called on,
\* how its allocation went ("none" if it asked for none), whether it returned
\* normally (with Ok, where it returns a Result), the count or length it returned, and for parse whether
\* the closure returned Ok (f_ok) and the slice the closure was shown (seen).
Call(op, arg, pre, alloc, ok, n) ==
  [op |-> op, arg |-> arg, pre |-> pre, alloc |-> alloc, ok |-> ok, n |-> n,
   f_ok |-> TRUE, seen |-> <<>>]

Init ==
  /\ overflow_checks \in BOOLEAN
  /\ \E kind \in Kinds :
       \/ buf = new(kind) /\ last = Call("new", 0, new(kind), "none", TRUE, 0)
       \/ \E cap \in Usize, alloc_ok \in BOOLEAN :
            LET r == with_capacity(kind, cap, alloc_ok) IN
            /\ buf = r.b
            /\ last = Call("with_capacity", cap, new(kind), r.alloc, TRUE, 0)
  /\ panicked = FALSE
  /\ in_contract = TRUE
  /\ supplied = <<>>
  /\ consumed = <<>>
  /\ guard = uninit(<<>>)
  /\ view = Owner
  /\ twin = new("Buffer")
  /\ pump = Idle
  /\ io = Made("unix", [ptr |-> 0, len |-> 0, raw |-> FALSE, type |-> Type("ref", FALSE, "u8")])

\* A caller can go on: nothing panicked, no contract was broken, the cursors
\* index the block (otherwise the next slice the code forms is out of bounds),
\* and the buffer was not dropped.
Live == ~panicked /\ in_contract /\ InBounds(buf) /\ last.op # "drop"

\* ---------------------------------------------------------------- actions

\* LinearBufWriter::reserve / BufferWriter::reserve.
Reserve ==
  /\ Live
  /\ \E n \in Usize, alloc_ok \in BOOLEAN :
     \E r \in {writer_reserve(buf, n, alloc_ok, overflow_checks)} :
       /\ buf' = r.b
       /\ panicked' = r.panic
       /\ last' = Call("reserve", n, buf, r.alloc, ~r.panic, 0)
       /\ UNCHANGED <<pump, twin, view, io, guard, overflow_checks, in_contract, supplied, consumed>>

\* LinearBufWriter::slice_mut / BufferWriter::slice_mut.
SliceMut ==
  /\ Live
  /\ \E n \in Usize, alloc_ok \in BOOLEAN :
     \E r \in {input_slice_mut(buf, n, alloc_ok, overflow_checks)} :
       /\ buf' = r.b
       /\ panicked' = r.panic
       /\ last' = Call("slice_mut", n, buf, r.alloc, ~r.panic, r.ret)
       /\ UNCHANGED <<pump, twin, view, io, guard, overflow_checks, in_contract, supplied, consumed>>

\* The caller writes the next k payload bytes into the front of the writable slice.
Fill ==
  \E k \in 1..IsizeMax :
    /\ Live
    /\ k <= capacity_in(buf)
    /\ Len(supplied) + k <= MaxData
    /\ buf' = filled(buf, Payload(Len(supplied), k))
    /\ last' = Call("fill", k, buf, "none", TRUE, 0)
    /\ UNCHANGED <<pump, twin, view, io, guard, overflow_checks, panicked, in_contract, supplied, consumed>>

\* LinearBufWriter::supply / BufferWriter::advance.
Supply ==
  /\ Live
  /\ \E count \in Usize :
     \E r \in {supply(buf, count, overflow_checks)} :
     \E ok \in {SupplyInContract(buf, count, Len(supplied))} :
       /\ ok => Len(supplied) + count <= MaxData
       /\ buf' = r.b
       /\ panicked' = r.panic
       /\ in_contract' = ok
       /\ supplied' = IF ok THEN supplied \o supplied_cells(buf, count) ELSE supplied
       /\ last' = Call("supply", count, buf, "none", ~r.panic, 0)
       /\ UNCHANGED <<pump, twin, view, io, guard, overflow_checks, consumed>>

\* LinearBufReader::consume / BufferReader::consume.
Consume ==
  /\ Live
  /\ \E count \in Usize :
     \E r \in {consume(buf, count)} :
       /\ buf' = r.b
       /\ panicked' = r.panic
       /\ in_contract' = (count <= len(buf))
       /\ consumed' = IF r.panic THEN consumed ELSE consumed \o taken(buf, count)
       /\ last' = Call("consume", count, buf, "none", ~r.panic, 0)
       /\ UNCHANGED <<pump, twin, view, io, guard, overflow_checks, supplied>>

\* LinearBufReader::consume_all / BufferReader::consume_all.
ConsumeAll ==
  /\ Live
  /\ buf' = consume_all(buf)
  /\ consumed' = consumed \o output_slice(buf)
  /\ last' = Call("consume_all", 0, buf, "none", TRUE, 0)
  /\ UNCHANGED <<pump, twin, view, io, guard, overflow_checks, panicked, in_contract, supplied>>

\* LinearBufReader::parse / BufferReader::parse with a closure that reports k.
Parse ==
  /\ Live
  /\ \E f_ok \in BOOLEAN, k \in Usize :
     \E r \in {parse(buf, f_ok, k, overflow_checks)} :
       /\ ~f_ok => k = 0
       /\ buf' = r.b
       /\ panicked' = r.panic
       /\ in_contract' = (k <= len(buf))
       /\ consumed' = IF r.ok THEN consumed \o taken(buf, k) ELSE consumed
       /\ last' = [Call("parse", k, buf, "none", r.ok, 0) EXCEPT
                       !.f_ok = f_ok, !.seen = parse_slice(buf)]
       /\ UNCHANGED <<pump, twin, view, io, guard, overflow_checks, supplied>>

\* LinearBuf::shrink_to_fit / Buffer::shrink_to_fit.
ShrinkToFit ==
  /\ Live
  /\ \E m \in Usize, alloc_ok \in BOOLEAN :
     \E r \in {shrink_to_fit(buf, m, alloc_ok)} :
       /\ buf' = r.b
       /\ last' = Call("shrink_to_fit", m, buf, r.alloc, TRUE, 0)
       /\ UNCHANGED <<pump, twin, view, io, guard, overflow_checks, panicked, in_contract, supplied, consumed>>

\* std::io::Write::write of the next n payload bytes.
StdWrite ==
  /\ Live
  /\ \E n \in 0..MaxData, alloc_ok \in BOOLEAN :
     \E r \in {std_write(buf, Payload(Len(supplied), n), alloc_ok, overflow_checks)} :
       /\ Len(supplied) + n <= MaxData
       /\ buf' = r.b
       /\ panicked' = r.panic
       /\ supplied' = supplied \o Payload(Len(supplied), r.ret)
       /\ last' = Call("write", n, buf, r.alloc, ~r.panic, r.ret)
       /\ UNCHANGED <<pump, twin, view, io, guard, overflow_checks, in_contract, consumed>>

\* std::io::Read::read into a slice of n bytes.
StdRead ==
  /\ Live
  /\ \E n \in Usize :
     \E r \in {std_read(buf, n)} :
       /\ buf' = r.b
       /\ panicked' = r.panic
       /\ consumed' = consumed \o taken(buf, r.ret)
       /\ last' = Call("read", n, buf, "none", ~r.panic, r.ret)
       /\ UNCHANGED <<pump, twin, view, io, guard, overflow_checks, in_contract, supplied>>

\* Drop::drop, when the buffer goes out of scope or a panic unwinds. The freed
\* block is gone: bytes becomes <<>>; last.seen is the layouts handed to dealloc.
Drop ==
  /\ last.op # "drop"
  /\ buf' = [buf EXCEPT !.bytes = <<>>]
  /\ last' = [Call("drop", 0, buf, "none", TRUE, 0) EXCEPT !.seen = drop(buf)]
  /\ UNCHANGED <<pump, twin, view, io, guard, overflow_checks, panicked, in_contract, supplied, consumed>>

Next ==
  \/ Reserve
  \/ SliceMut
  \/ Fill
  \/ Supply
  \/ Consume
  \/ ConsumeAll
  \/ Parse
  \/ ShrinkToFit
  \/ StdWrite
  \/ StdRead
  \/ Drop

Spec == Init /\ [][Next]_vars

\* ------------------------------------- the buffer between a source and a sink

\* LinearBufReader::write_to / BufferReader::write_to; the sink answers Ok(count)
\* or Err. A sink that answers more than it was offered breaks the contract of
\* std::io::Write. last.f_ok is whether the sink answered Ok, last.seen the
\* slice it was offered.
WriteTo ==
  /\ Live
  /\ \E sink_ok \in BOOLEAN, count \in Usize :
     \E r \in {write_to(buf, sink_ok, count)} :
       /\ ~sink_ok => count = 0
       /\ buf' = r.b
       /\ panicked' = r.panic
       /\ in_contract' = (count <= len(buf))
       /\ consumed' = IF r.ok THEN consumed \o taken(buf, count) ELSE consumed
       /\ last' = [Call("write_to", count, buf, "none", r.ok, r.ret) EXCEPT
                       !.f_ok = sink_ok, !.seen = output_slice(buf)]
       /\ UNCHANGED <<pump, twin, view, io, guard, overflow_checks, supplied>>

\* A decode attempt for a message of msg_len bytes. last.f_ok is whether the
\* decoder found a whole message, last.seen the slice it was shown.
Decode ==
  /\ Live
  /\ \E msg_len \in 1..MaxData :
     \E r \in {decode(buf, msg_len, overflow_checks)} :
       /\ buf' = r.b
       /\ panicked' = r.panic
       /\ consumed' = IF r.ok THEN consumed \o taken(buf, msg_len) ELSE consumed
       /\ last' = [Call("decode", msg_len, buf, "none", r.ok, 0) EXCEPT
                       !.f_ok = (Len(parse_slice(buf)) >= msg_len), !.seen = parse_slice(buf)]
       /\ UNCHANGED <<pump, twin, view, io, guard, overflow_checks, in_contract, supplied>>

StreamNext ==
  \/ Reserve
  \/ SliceMut
  \/ Fill
  \/ Supply
  \/ ShrinkToFit
  \/ WriteTo
  \/ Decode

StreamSpec == Init /\ [][StreamNext]_vars

\* ----------------------------------------------------- the buffer and its clone

\* buf.clone(): last.seen is the clone, last.n its readable length, last.f_ok
\* whether the copy stayed inside the clone's block. A copy that did not is
\* undefined behaviour: the process crashes, or goes on with the clone.
Clone ==
  /\ Live
  /\ \E alloc_ok \in BOOLEAN, realloc_ok \in BOOLEAN, crash \in BOOLEAN :
     \E r \in {clone(buf, alloc_ok, realloc_ok, overflow_checks)} :
       /\ crash => r.ub
       /\ panicked' = (r.panic \/ crash)
       /\ last' = [Call("clone", 0, buf, IF alloc_ok THEN "ok" ELSE "failed",
                        ~(r.panic \/ crash), len(r.c)) EXCEPT
                       !.seen = r.c, !.f_ok = ~r.ub]
       /\ UNCHANGED <<pump, twin, view, io, guard, overflow_checks, buf, in_contract, supplied, consumed>>

CloneNext ==
  \/ Reserve
  \/ Fill
  \/ Supply
  \/ Consume
  \/ Clone

CloneSpec == Init /\ [][CloneNext]_vars

\* ------------------------------------------------- the two variants side by side
\* buf is a LinearBuf and twin a Buffer, made with the same capacity and the
\* same allocator answer; every call is made on both with the same arguments
\* and the same allocator answer.

PairInit ==
  /\ overflow_checks \in BOOLEAN
  /\ \E cap \in Usize, alloc_ok \in BOOLEAN :
       LET r == with_capacity("LinearBuf", cap, alloc_ok) IN
       /\ buf = r.b
       /\ twin = with_capacity("Buffer", cap, alloc_ok).b
       /\ last = Call("with_capacity", cap, new("LinearBuf"), r.alloc, TRUE, 0)
  /\ panicked = FALSE
  /\ in_contract = TRUE
  /\ supplied = <<>>
  /\ consumed = <<>>
  /\ guard = uninit(<<>>)
  /\ view = Owner
  /\ io = Made("unix", [ptr |-> 0, len |-> 0, raw |-> FALSE, type |-> Type("ref", FALSE, "u8")])
  /\ pump = Idle

PairLive == Live /\ InBounds(twin)

\* The effect of a call with results r on buf and t on twin.
Paired(op, arg, r, t, alloc) ==
  /\ buf' = r.b
  /\ twin' = t.b
  /\ panicked' = (r.panic \/ t.panic)
  /\ last' = Call(op, arg, buf, alloc, ~(r.panic \/ t.panic), 0)
  /\ UNCHANGED <<pump, overflow_checks, guard, view, io>>

PairReserve ==
  /\ PairLive
  /\ \E n \in Usize, alloc_ok \in BOOLEAN :
     \E r \in {writer_reserve(buf, n, alloc_ok, overflow_checks)} :
       /\ Paired("reserve", n, r, writer_reserve(twin, n, alloc_ok, overflow_checks), r.alloc)
       /\ UNCHANGED <<pump, in_contract, supplied, consumed>>

\* The caller writes the next k payload bytes into both writable slices.
PairFill ==
  \E k \in 1..IsizeMax :
    /\ PairLive
    /\ k <= capacity_in(buf) /\ k <= capacity_in(twin)
    /\ Len(supplied) + k <= MaxData
    /\ buf' = filled(buf, Payload(Len(supplied), k))
    /\ twin' = filled(twin, Payload(Len(supplied), k))
    /\ last' = Call("fill", k, buf, "none", TRUE, 0)
    /\ UNCHANGED <<pump, overflow_checks, panicked, in_contract, supplied, consumed, guard, view, io>>

\* LinearBufWriter::supply on buf, BufferWriter::advance on twin.
PairSupply ==
  /\ PairLive
  /\ \E count \in Usize :
     \E ok \in {SupplyInContract(buf, count, Len(supplied)) /\ count <= capacity_in(twin)} :
       /\ ok => Len(supplied) + count <= MaxData
       /\ Paired("supply", count, supply(buf, count, overflow_checks),
                 supply(twin, count, overflow_checks), "none")
       /\ in_contract' = ok
       /\ supplied' = IF ok THEN supplied \o supplied_cells(buf, count) ELSE supplied
       /\ UNCHANGED consumed

PairConsume ==
  /\ PairLive
  /\ \E count \in Usize :
       /\ Paired("consume", count, consume(buf, count), consume(twin, count), "none")
       /\ in_contract' = (count <= len(buf) /\ count <= len(twin))
       /\ consumed' = IF count <= len(buf) THEN consumed \o taken(buf, count) ELSE consumed
       /\ UNCHANGED supplied

PairConsumeAll ==
  /\ PairLive
  /\ Paired("consume_all", 0, [b |-> consume_all(buf), panic |-> FALSE],
            [b |-> consume_all(twin), panic |-> FALSE], "none")
  /\ consumed' = consumed \o output_slice(buf)
  /\ UNCHANGED <<pump, in_contract, supplied>>

\* parse on both with a closure that reports k.
PairParse ==
  /\ PairLive
  /\ \E f_ok \in BOOLEAN, k \in Usize :
     \E r \in {parse(buf, f_ok, k, overflow_checks)} :
       /\ ~f_ok => k = 0
       /\ Paired("parse", k, r, parse(twin, f_ok, k, overflow_checks), "none")
       /\ in_contract' = (k <= len(buf) /\ k <= len(twin))
       /\ consumed' = IF r.ok THEN consumed \o taken(buf, k) ELSE consumed
       /\ UNCHANGED supplied

PairShrinkToFit ==
  /\ PairLive
  /\ \E m \in Usize, alloc_ok \in BOOLEAN :
     \E r \in {shrink_to_fit(buf, m, alloc_ok)} :
     \E t \in {shrink_to_fit(twin, m, alloc_ok)} :
       /\ Paired("shrink_to_fit", m, [b |-> r.b, panic |-> FALSE],
                 [b |-> t.b, panic |-> FALSE], r.alloc)
       /\ UNCHANGED <<pump, in_contract, supplied, consumed>>

PairNext ==
  \/ PairReserve
  \/ PairFill
  \/ PairSupply
  \/ PairConsume
  \/ PairConsumeAll
  \/ PairParse
  \/ PairShrinkToFit

PairSpec == PairInit /\ [][PairNext]_vars

\* ------------------------------------------------------------ the pump loop
\* io_test(in_rate, out_rate) over a source of total bytes, with allocations
\* that succeed. supplied is what was read from the source, consumed what was
\* written to the sink.

PumpInit ==
  /\ overflow_checks \in BOOLEAN
  /\ \E kind \in Kinds :
       /\ buf = with_capacity(kind, PumpCapacity, TRUE).b
       /\ last = Call("with_capacity", PumpCapacity, new(kind), "ok", TRUE, 0)
  /\ \E in_rate \in 1..UsizeMax, out_rate \in 1..UsizeMax, total \in 0..MaxData :
       pump = Pumping("input", in_rate, out_rate, total, FALSE)
  /\ panicked = FALSE
  /\ in_contract = TRUE
  /\ supplied = <<>>
  /\ consumed = <<>>
  /\ guard = uninit(<<>>)
  /\ view = Owner
  /\ io = Made("unix", [ptr |-> 0, len |-> 0, raw |-> FALSE, type |-> Type("ref", FALSE, "u8")])
  /\ twin = new("Buffer")

PumpInput ==
  /\ pump.pc = "input" /\ ~panicked
  /\ \E r \in {pump_input(buf, pump.in_rate, pump.total, Len(supplied), overflow_checks)} :
       /\ buf' = r.b
       /\ panicked' = r.panic
       /\ supplied' = supplied \o r.read
       /\ pump' = [pump EXCEPT !.pc = "output", !.should_loop = (Len(r.read) # 0)]
       /\ last' = Call("input", pump.in_rate, buf, "ok", ~r.panic, Len(r.read))
       /\ UNCHANGED <<overflow_checks, in_contract, consumed, guard, view, io, twin>>

PumpOutput ==
  /\ pump.pc = "output" /\ ~panicked
  /\ \E r \in {pump_output(buf, pump.out_rate)} :
       /\ buf' = r.b
       /\ panicked' = r.panic
       /\ consumed' = consumed \o r.written
       /\ pump' = IF pump.should_loop \/ Len(r.written) # 0
                  THEN [pump EXCEPT !.pc = "input", !.should_loop = FALSE]
                  ELSE [pump EXCEPT !.pc = "done"]
       /\ last' = Call("output", pump.out_rate, buf, "none", ~r.panic, Len(r.written))
       /\ UNCHANGED <<overflow_checks, in_contract, supplied, guard, view, io, twin>>

PumpNext ==
  \/ PumpInput
  \/ PumpOutput

\* The loop is a sequential program: it takes its next step.
PumpSpec == PumpInit /\ [][PumpNext]_vars /\ WF_vars(PumpNext)

\* ------------------------------------------------- the write guard on its own

\* The lengths and counts the guard is called with: up to past its storage.
GuardArgs == 0..(MaxGuard + 1)

\* A guard over no storage (UninitSlice::empty) or over MaxGuard cells:
\* UninitSlice::uninit over uninitialized storage, or UninitSlice::new over bytes
\* of the previous owner. Shorter guards come from these by advance.
GuardInit ==
  /\ overflow_checks \in BOOLEAN
  /\ \E n \in {0, MaxGuard} : \E mem \in {[i \in 1..n |-> c] : c \in {Uninit, Stale}} :
       /\ guard = uninit(mem)
       /\ last = [Call("uninit", n, uninit(mem), "none", TRUE, n) EXCEPT !.seen = {}]
  /\ buf = new("LinearBuf")
  /\ panicked = FALSE
  /\ in_contract = TRUE
  /\ supplied = <<>>
  /\ consumed = <<>>
  /\ view = Owner
  /\ twin = new("Buffer")
  /\ pump = Idle
  /\ io = Made("unix", [ptr |-> 0, len |-> 0, raw |-> FALSE, type |-> Type("ref", FALSE, "u8")])

\* The guard can be used: nothing panicked, it was not moved out of, and its
\* slice lies in its storage.
GuardLive == ~panicked /\ guard.alive /\ GuardInBounds(guard)

\* The effect of a guard call with result r on the state; last.seen is the
\* cells of the slice the call returned (or gave to the closure).
Returned(op, arg, r) ==
  /\ guard' = r.g
  /\ panicked' = r.panic
  /\ last' = [Call(op, arg, guard, "none", ~r.panic, r.ret) EXCEPT !.seen = r.out]
  /\ UNCHANGED <<pump, twin, view, io, buf, overflow_checks, in_contract, supplied, consumed>>

GuardAdvance ==
  /\ GuardLive
  /\ \E count \in GuardArgs : Returned("advance", count, uninit_advance(guard, count, overflow_checks))

WriteFrom ==
  /\ GuardLive
  /\ \E n \in GuardArgs :
       Returned("write_from", n, uninit_write_from(guard, Payload(0, n), overflow_checks))

Zeroed ==
  /\ GuardLive
  /\ \E n \in GuardArgs : Returned("zeroed", n, uninit_zeroed(guard, n))

IntoZeroed ==
  /\ GuardLive
  /\ Returned("into_zeroed", 0, uninit_into_zeroed(guard))

\* write_with(mx, f) where f writes k bytes and returns written: nothing, what
\* it wrote, the most it may, or more than it may; last.arg is mx together with
\* what f wrote and returned, last.f_ok is whether f returned what it wrote.
WriteWith ==
  /\ GuardLive
  /\ \E mx \in GuardArgs, k \in 0..MaxGuard :
     \E written \in {0, k, mx, mx + 1} :
       /\ k <= min(mx, guard.len)
       /\ \E r \in {uninit_write_with(guard, mx, Payload(0, k), written, overflow_checks)} :
            /\ guard' = r.g
            /\ panicked' = r.panic
            /\ last' = [Call("write_with", [max |-> mx, wrote |-> k, written |-> written],
                                 guard, "none", ~r.panic, r.ret) EXCEPT
                            !.seen = r.out, !.f_ok = (written = k)]
            /\ UNCHANGED <<pump, twin, view, io, buf, overflow_checks, in_contract, supplied, consumed>>

GuardNext ==
  \/ GuardAdvance
  \/ WriteFrom
  \/ Zeroed
  \/ IntoZeroed
  \/ WriteWith

GuardSpec == GuardInit /\ [][GuardNext]_vars

\* --------------------------------------------------- the buffer through a view

\* The caller holds a &mut to this type.
Holds(type) == view.type = type /\ view.mut

TakeReader ==
  /\ Live /\ Holds("Buf")
  /\ view' = reader(view)
  /\ last' = Call("reader", 0, buf, "none", TRUE, 0)
  /\ UNCHANGED <<pump, twin, buf, overflow_checks, panicked, in_contract, supplied, consumed, guard, io>>

TakeWriter ==
  /\ Live /\ Holds("Buf")
  /\ view' = writer(view)
  /\ last' = Call("writer", 0, buf, "none", TRUE, 0)
  /\ UNCHANGED <<pump, twin, buf, overflow_checks, panicked, in_contract, supplied, consumed, guard, io>>

DerefView ==
  /\ Live /\ HasDeref(buf.kind, view.type)
  /\ view' = deref(view)
  /\ UNCHANGED <<pump, twin, buf, overflow_checks, panicked, in_contract, supplied, consumed, last, guard, io>>

DerefMutView ==
  /\ Live /\ view.mut /\ HasDerefMut(buf.kind, view.type)
  /\ view' = deref_mut(view)
  /\ UNCHANGED <<pump, twin, buf, overflow_checks, panicked, in_contract, supplied, consumed, last, guard, io>>

\* The borrow ends: the owner has the buffer again.
Release ==
  /\ view # Owner
  /\ view' = Owner
  /\ UNCHANGED <<pump, twin, buf, overflow_checks, panicked, in_contract, supplied, consumed, last, guard, io>>

ViewReserve == Holds("Writer") /\ Reserve

ViewFill == Holds("Writer") /\ Fill

ViewSupply == Holds("Writer") /\ Supply

ViewConsume == Holds("Reader") /\ Consume

ViewParse == Holds("Reader") /\ Parse

\* std::io::Read is implemented for the buffer and its reader.
ViewStdRead == (Holds("Buf") \/ Holds("Reader")) /\ StdRead

ViewNext ==
  \/ TakeReader
  \/ TakeWriter
  \/ DerefView
  \/ DerefMutView
  \/ Release
  \/ ViewReserve
  \/ ViewFill
  \/ ViewSupply
  \/ ViewConsume
  \/ ViewParse
  \/ ViewStdRead

ViewSpec == Init /\ [][ViewNext]_vars

\* ----------------------------------------------------------- IoRepr on its own

IoInit ==
  /\ overflow_checks \in BOOLEAN
  /\ \E layout \in Layouts, x \in BytesPtrValues :
       /\ io = Made(layout, x)
       /\ last = Call("new", x, Made(layout, x), "none", TRUE, 0)
  /\ buf = new("LinearBuf")
  /\ panicked = FALSE
  /\ in_contract = TRUE
  /\ supplied = <<>>
  /\ consumed = <<>>
  /\ guard = uninit(<<>>)
  /\ view = Owner
  /\ twin = new("Buffer")
  /\ pump = Idle

\* IoRepr::advance(n); last.n is the shortfall it returned (0 for None).
IoAdvance ==
  /\ ~panicked
  /\ \E n \in Usize :
     \E r \in {IoRepr_advance(io.repr, n)} :
       /\ io.k + n <= UsizeMax
       /\ io' = [io EXCEPT !.repr = r.s, !.k = IF r.panic THEN @ ELSE @ + n]
       /\ panicked' = r.panic
       /\ last' = Call("advance", n, io, "none", ~r.panic, r.ret)
       /\ UNCHANGED <<pump, twin, buf, overflow_checks, in_contract, supplied, consumed, guard, view>>

\* IoRepr::into_inner on a copy of the IoRepr; last.seen is the value it returns.
IntoInner ==
  /\ ~panicked
  /\ last' = [Call("into_inner", 0, io, "none", TRUE, 0) EXCEPT
                  !.seen = into_inner(io.repr, io.x.raw)]
  /\ UNCHANGED <<pump, twin, buf, overflow_checks, panicked, in_contract, supplied, consumed, guard, view, io>>

\* The projections of an IoRepr<T>, each in an impl block bounded by a
\* capability of T; last.seen is the range the projection gives.
Projected(op) ==
  /\ ~panicked
  /\ last' = [Call(op, 0, io, "none", TRUE, 0) EXCEPT !.seen = as_ptr(io.repr)]
  /\ UNCHANGED <<pump, twin, buf, overflow_checks, panicked, in_contract, supplied, consumed, guard, view, io>>

AsSlice == io.x.type \in ReadSafe /\ Projected("as_slice")

AsSliceUninit == io.x.type \in WriteSafe /\ Projected("as_slice_uninit")

AsSliceMut == io.x.type \in MutSafe /\ Projected("as_slice_mut")

IoNext ==
  \/ IoAdvance
  \/ IntoInner
  \/ AsSlice
  \/ AsSliceUninit
  \/ AsSliceMut

IoSpec == IoInit /\ [][IoNext]_vars

\* ------------------------------------------------------------------ claims

\* A reservation (reserve, or the slice_mut / input_slice_mut that calls it).
Reserving == last.op \in {"reserve", "slice_mut"}

\* C1: round trip (FIFO). While the caller keeps its contracts, the bytes taken
\* out of the readable region, concatenated, are a prefix of the bytes marked
\* written, and are all of them whenever the buffer is empty; for both kinds of
\* buffer, whatever the chunk sizes, across compaction and reallocation.
C1_RoundTrip ==
  in_contract =>
    /\ IsPrefix(consumed, supplied)
    /\ is_empty(buf) => consumed = supplied

\* C1 witness: a whole payload went through a LinearBuf that was compacted or
\* grown on the way, and the last byte was taken out alone.
C1_Witness ==
  /\ in_contract /\ ~panicked
  /\ buf.kind = "LinearBuf"
  /\ Len(supplied) = MaxData /\ consumed = supplied
  /\ last.op = "consume" /\ last.arg = 1 /\ last.pre.output_idx = 0
  /\ last.pre.input_idx = 1

\* C2: cursor invariant. While the caller keeps its contracts,
\* output_idx <= input_idx <= capacity.
C2_CursorInvariant ==
  in_contract => buf.output_idx <= buf.input_idx /\ buf.input_idx <= buf.capacity

C4_AsStated ==
  (Reserving /\ last.alloc = "failed") => capacity_in(buf) = capacity_in(last.pre)

\* C4 amended: when the allocation of reserve(n) fails, capacity is what it was
\* before the call and the readable region has been compacted, so capacity_in()
\* is what it was before the call plus the output_idx before the call (unchanged
\* exactly when output_idx was 0).
C4_FailedReserve ==
  (Reserving /\ last.alloc = "failed") =>
    /\ buf.capacity = last.pre.capacity
    /\ buf.output_idx = 0
    /\ capacity_in(buf) = capacity_in(last.pre) + last.pre.output_idx

\* C4 witness: an allocation failed in a reserve on a buffer with output_idx > 0.
C4_Witness ==
  /\ last.op = "reserve" /\ last.alloc = "failed"
  /\ last.pre.output_idx > 0 /\ len(last.pre) > 0

\* C5: consume(count) with count > len() panics and modifies nothing (no clamping);
\* with count <= len() it returns, advances output_idx by exactly count (both
\* cursors then reset to 0 if that empties the buffer) and leaves input_idx
\* (but for that reset), the bytes and the capacity unchanged.
C5_Consume ==
  last.op = "consume" =>
    IF last.arg > len(last.pre)
    THEN panicked /\ buf = last.pre
    ELSE /\ ~panicked
         /\ buf.capacity = last.pre.capacity
         /\ buf.bytes = last.pre.bytes
         /\ IF last.pre.output_idx + last.arg = last.pre.input_idx
            THEN buf.output_idx = 0 /\ buf.input_idx = 0
            ELSE /\ buf.output_idx = last.pre.output_idx + last.arg
                 /\ buf.input_idx = last.pre.input_idx

\* C5 witness: a consume of more than the readable bytes of a non-empty buffer
\* was rejected.
C5_Witness ==
  /\ last.op = "consume" /\ panicked
  /\ len(last.pre) > 0 /\ last.arg > len(last.pre)

\* C6: on both kinds of buffer, marking more bytes written than capacity_in()
\* (LinearBufWriter::supply, BufferWriter::advance) panics, so that
\* input_idx <= capacity still holds afterwards.
C6_OversizedSupplyRejected ==
  (last.op = "supply" /\ last.arg > capacity_in(last.pre)) =>
    panicked /\ buf.input_idx <= buf.capacity

\* C7: parse shows the closure exactly the readable region; when the closure
\* returns Ok with a count k <= len(), parse returns Ok, the readable region is
\* the previous one without its first k bytes, both cursors are 0 if k = len(),
\* and the capacity is unchanged.
C7_Parse ==
  last.op = "parse" =>
    /\ last.seen = output_slice(last.pre)
    /\ (last.f_ok /\ last.arg <= len(last.pre)) =>
         /\ last.ok /\ ~panicked
         /\ output_slice(buf) = SubSeq(output_slice(last.pre), last.arg + 1, len(last.pre))
         /\ buf.capacity = last.pre.capacity
         /\ last.arg = len(last.pre) => buf.output_idx = 0 /\ buf.input_idx = 0

\* C7 witness: a parse took some but not all of the readable bytes of a buffer
\* whose readable region did not start at offset 0 and did not fill the block.
C7_Witness ==
  /\ last.op = "parse" /\ last.f_ok /\ last.ok
  /\ 0 < last.arg /\ last.arg < len(last.pre)
  /\ last.pre.output_idx > 0 /\ capacity_in(last.pre) > 0

\* C8: when the closure reports a count larger than len(), parse panics, for
\* every such count, on both kinds of buffer.
C8_OverReportPanics ==
  (last.op = "parse" /\ last.f_ok /\ last.arg > len(last.pre)) => panicked

\* C9: when a consume or a parse removes exactly len() bytes, both cursors are
\* 0 afterwards and capacity_in() = capacity().
C9_EmptyResets ==
  (/\ last.op \in {"consume", "parse"}
   /\ last.f_ok
   /\ last.arg = len(last.pre)) =>
    /\ ~panicked
    /\ buf.output_idx = 0 /\ buf.input_idx = 0
    /\ capacity_in(buf) = buf.capacity

\* C9 witness: a consume took all the bytes of a readable region that did not
\* start at offset 0.
C9_Witness ==
  /\ last.op = "consume" /\ last.arg = len(last.pre)
  /\ last.arg > 0 /\ last.pre.output_idx > 0 /\ buf.capacity > 0

\* C10: a reservation, whatever it does, leaves the readable region inside the
\* block, with the bytes and the length it had.
C10_ReservePreservesReadable ==
  Reserving => InBounds(buf) /\ output_slice(buf) = output_slice(last.pre)

\* C11: a reservation of n bytes tries the compaction before the allocator. If
\* capacity_in() >= n nothing changes at all; otherwise, if capacity - len() >= n,
\* the readable region is moved to offset 0 with its bytes, the capacity is kept
\* and the allocator is not called; the allocator is called only when
\* capacity - len() < n.
C11_CompactionFirst ==
  Reserving =>
    /\ capacity_in(last.pre) >= last.arg => buf = last.pre /\ ~panicked
    /\ (capacity_in(last.pre) < last.arg /\ last.pre.capacity - len(last.pre) >= last.arg) =>
         /\ ~panicked
         /\ buf.output_idx = 0
         /\ buf.input_idx = len(last.pre)
         /\ buf.capacity = last.pre.capacity
         /\ output_slice(buf) = output_slice(last.pre)
    /\ (last.alloc # "none" \/ buf.capacity # last.pre.capacity) =>
         last.pre.capacity - len(last.pre) < last.arg

\* C11 witness: a reserve found too little room after the write cursor and
\* enough once the readable bytes were moved to the front.
C11_Witness ==
  /\ last.op = "reserve" /\ ~panicked
  /\ capacity_in(last.pre) < last.arg
  /\ last.pre.capacity - len(last.pre) >= last.arg
  /\ last.pre.output_idx > 0 /\ len(last.pre) > 0
  /\ buf.output_idx = 0

\* The capacity a reservation of n bytes on b has to reallocate to:
\* capacity + input_idx + n with input_idx = len() after the compaction,
\* capped at isize::MAX.
C12_NewCapacity == min(last.pre.capacity + len(last.pre) + last.arg, IsizeMax)

\* C12: when a reservation has to reallocate (capacity - len() < n) and its
\* allocation succeeds, the new capacity is capacity + len() + n capped at
\* isize::MAX.
C12_GrowthFormula ==
  (Reserving /\ ~panicked /\ last.alloc = "ok") => buf.capacity = C12_NewCapacity

\* C13: a reservation never decreases the capacity, and never leaves it below
\* input_idx, whatever n is, in a build whose arithmetic wraps (release).
C13_ReserveNeverShrinks ==
  (Reserving /\ ~overflow_checks) =>
    buf.capacity >= last.pre.capacity /\ buf.capacity >= buf.input_idx

\* C14: shrink_to_fit(m) compacts (output_idx = 0, input_idx = len()); then,
\* unless the allocation fails, the capacity is max(m, len()) capped at
\* isize::MAX; if the allocation fails the capacity is what it was. Either way
\* the readable bytes are what they were.
C14_ShrinkToFit ==
  last.op = "shrink_to_fit" =>
    /\ ~panicked
    /\ buf.capacity = IF last.alloc = "failed" THEN last.pre.capacity
                      ELSE min(max(last.arg, len(last.pre)), IsizeMax)
    /\ buf.output_idx = 0
    /\ buf.input_idx = len(last.pre)
    /\ InBounds(buf)
    /\ output_slice(buf) = output_slice(last.pre)

\* C14 witness: a shrink_to_fit below the readable length of a buffer whose
\* readable region did not start at offset 0 reallocated to that length.
C14_Witness ==
  /\ last.op = "shrink_to_fit" /\ last.alloc = "ok"
  /\ last.pre.output_idx > 0 /\ len(last.pre) > 0
  /\ last.arg < len(last.pre)
  /\ buf.capacity = len(last.pre) /\ buf.capacity < last.pre.capacity

\* C15: shrink_to_fit only shrinks: the capacity after the call is at most the
\* capacity before it, for every min.
C15_OnlyShrinks ==
  last.op = "shrink_to_fit" => buf.capacity <= last.pre.capacity

\* C16: allocation lifecycle. As long as the buffer lives it holds a heap block
\* exactly when capacity > 0, and the block has exactly capacity bytes; dropping
\* it frees that block once, with its size, when capacity > 0 and frees nothing
\* when capacity = 0.
C16_Lifecycle ==
  IF last.op = "drop"
  THEN last.seen = (IF Len(last.pre.bytes) > 0 THEN <<Len(last.pre.bytes)>> ELSE <<>>)
  ELSE Len(buf.bytes) = buf.capacity

\* C16 witness: a buffer holding a block with written bytes was dropped and
\* the block freed, once, with its size.
C16_Witness ==
  /\ last.op = "drop" /\ last.seen = <<last.pre.capacity>>
  /\ last.pre.capacity > 0
  /\ last.pre.input_idx > 0

\* C17: new() has capacity 0, both cursors 0 and no block. with_capacity(n) has
\* both cursors 0; when the allocation succeeds (or none is needed) its
\* capacity is at least min(n, isize::MAX); when it fails the capacity is the
\* size of the block obtained, which is none and less than n; the capacity is
\* never more than the memory held.
C17_Construction ==
  /\ last.op = "new" => buf = new(buf.kind) /\ buf.bytes = <<>>
  /\ last.op = "with_capacity" =>
       /\ buf.input_idx = 0 /\ buf.output_idx = 0
       /\ buf.capacity <= Len(buf.bytes)
       /\ last.alloc # "failed" => buf.capacity >= min(last.arg, IsizeMax)
       /\ last.alloc = "failed" =>
            buf.capacity = Len(buf.bytes) /\ buf.capacity = 0 /\ buf.capacity < last.arg

\* C17 witness: the allocation of a with_capacity(n), n > isize::MAX, failed.
C17_Witness ==
  last.op = "with_capacity" /\ last.alloc = "failed" /\ last.arg > IsizeMax

\* C18: a public growth operation (the writer's reserve or slice_mut) whose
\* allocation fails does not return normally: it reports the failure or aborts.
C18_FailureReported ==
  (Reserving /\ last.alloc = "failed") => ~last.ok

\* C19: the writer's reserve(bytes) panics whenever the buffer would need more
\* than isize::MAX bytes to hold its readable bytes and bytes more.
C19_ReservePanicsOverIsizeMax ==
  (last.op = "reserve" /\ len(last.pre) + last.arg > IsizeMax) => panicked

C21_WriteFrom ==
  last.op = "write_from" =>
    /\ ~panicked
    /\ last.n = min(last.pre.len, last.arg)
    /\ last.seen = Cells(last.pre, last.n)
    /\ \A j \in 1..last.n : guard.mem[last.pre.start + j] = Payload(0, last.arg)[j]
    /\ guard.start = last.pre.start + last.n
    /\ guard.len = last.pre.len - last.n

\* C22: write_with(max, f) zero-fills the first max cells of the guard (all of
\* them if it has fewer) and gives f exactly those; afterwards the cells of
\* them that f did not overwrite read zero; a report above max panics; a report
\* up to max is returned and the guard is shrunk from the front by it.
C22_WriteWith ==
  last.op = "write_with" =>
    /\ last.seen = Cells(last.pre, min(last.arg.max, last.pre.len))
    /\ \A j \in 1..min(last.arg.max, last.pre.len) :
         guard.mem[last.pre.start + j] =
           IF j <= last.arg.wrote THEN Payload(0, last.arg.wrote)[j] ELSE 0
    /\ IF last.arg.written > last.arg.max THEN panicked
       ELSE /\ ~panicked
            /\ last.n = last.arg.written
            /\ guard.start = last.pre.start + last.arg.written
            /\ guard.len = last.pre.len - last.arg.written

\* C23: advance(count) shrinks the guard from the front by min(count, len) and
\* returns count - min(count, len); it hands out no cell and writes none.
C23_Advance ==
  last.op = "advance" =>
    /\ ~panicked
    /\ guard.start = last.pre.start + min(last.arg, last.pre.len)
    /\ guard.len = last.pre.len - min(last.arg, last.pre.len)
    /\ last.n = last.arg - min(last.arg, last.pre.len)
    /\ last.seen = {}
    /\ guard.exposed = last.pre.exposed
    /\ guard.mem = last.pre.mem

\* C23 witness: an advance past the end of a guard that still had cells, some
\* of them uninitialized, returned the excess.
C23_Witness ==
  /\ last.op = "advance" /\ last.pre.len > 0 /\ last.arg > last.pre.len
  /\ last.n = last.arg - last.pre.len /\ guard.len = 0
  /\ \E i \in Cells(last.pre, last.pre.len) : guard.mem[i] = Uninit

\* C24: write_to offers the sink the whole readable region; when the sink
\* accepts count of these bytes, exactly the first count readable bytes are
\* consumed and Ok(count) is returned; when the sink returns an error, the
\* error is returned and the buffer is as it was.
C24_WriteTo ==
  last.op = "write_to" =>
    /\ last.seen = output_slice(last.pre)
    /\ ~last.f_ok => ~last.ok /\ ~panicked /\ buf = last.pre
    /\ (last.f_ok /\ last.arg <= len(last.pre)) =>
         /\ last.ok /\ ~panicked /\ last.n = last.arg
         /\ len(buf) = len(last.pre) - last.arg
         /\ output_slice(buf) = SubSeq(output_slice(last.pre), last.arg + 1, len(last.pre))
         /\ buf.capacity = last.pre.capacity

\* C24 witness: a sink accepted some but not all of the readable bytes.
C24_Witness ==
  /\ last.op = "write_to" /\ last.ok
  /\ 0 < last.arg /\ last.arg < len(last.pre)
  /\ last.pre.output_idx > 0

\* C27: decoder pending discipline. Whatever reservations, compactions and
\* reallocations happen, the readable region (what the next decode attempt is
\* shown) is the bytes supplied and not yet consumed, in order; a decode attempt
\* that finds less than a whole message reports failure and leaves the buffer
\* as it was; one that finds a whole message yields it and consumes exactly its
\* length, leaving the bytes after it readable.
C27_PendingDiscipline ==
  /\ (in_contract /\ ~panicked) =>
       InBounds(buf) /\ consumed \o output_slice(buf) = supplied
  /\ last.op = "decode" =>
       /\ last.seen = output_slice(last.pre)
       /\ IF Len(last.seen) < last.arg
          THEN ~last.ok /\ ~panicked /\ buf = last.pre
          ELSE /\ last.ok /\ ~panicked
               /\ output_slice(buf) = SubSeq(last.seen, last.arg + 1, Len(last.seen))

\* C25: std::io::Write::write(src) returns Ok(k) without panic, with the
\* previously readable bytes followed by the first k bytes of src readable, and
\* k = src.len() when the allocation succeeds (and isize::MAX bytes suffice);
\* std::io::Read::read(out) returns Ok(k) without panic, k = min(out.len(),
\* len()), with the first k readable bytes consumed.
C25_StdIo ==
  /\ last.op = "write" =>
       /\ ~panicked /\ last.ok
       /\ len(buf) = len(last.pre) + last.n
       /\ output_slice(buf) =
            output_slice(last.pre) \o SubSeq(supplied, Len(supplied) - last.n + 1, Len(supplied))
       /\ (last.alloc # "failed" /\ len(last.pre) + last.arg <= IsizeMax) => last.n = last.arg
  /\ last.op = "read" =>
       /\ ~panicked /\ last.ok
       /\ last.n = min(last.arg, len(last.pre))
       /\ output_slice(buf) = SubSeq(output_slice(last.pre), last.n + 1, len(last.pre))

\* C26: a write attempt that got writable space (reserve, slice_mut), wrote
\* into it or not, and was abandoned before supply leaves the readable region
\* as it was: the same bytes, as many, none of the written ones among them.
C26_AbandonedWrite ==
  last.op \in {"reserve", "slice_mut", "fill"} =>
    /\ InBounds(buf)
    /\ len(buf) = len(last.pre)
    /\ output_slice(buf) = output_slice(last.pre)

\* C28: from a Writer view no operation on the readable region can be reached
\* (no Reader view, no readable slice, no consume, parse or std read), and from
\* a Reader view no operation of the write side (no Writer view, no reserve,
\* writable slice, supply or std write).
C28_ViewRestriction ==
  /\ view.origin = "Writer" =>
       /\ view.type \notin {"Reader", "slice"}
       /\ last.op \notin {"reader", "consume", "consume_all", "parse", "read"}
  /\ view.origin = "Reader" =>
       /\ view.type # "Writer"
       /\ last.op \notin {"writer", "reserve", "slice_mut", "fill", "supply", "write"}

\* C29: advance(n) never panics, moves the pointer forward by min(n, len),
\* leaves len - min(n, len) bytes, returns the shortfall n - len when n > len and
\* None otherwise; the described range stays inside the one described at first.
C29_AdvanceSaturates ==
  /\ last.op = "advance" =>
       /\ ~panicked
       /\ io.repr.ptr = last.pre.repr.ptr + min(last.arg, last.pre.repr.len)
       /\ io.repr.len = last.pre.repr.len - min(last.arg, last.pre.repr.len)
       /\ last.n = max(last.arg - last.pre.repr.len, 0)
  /\ io.repr.ptr >= io.x.ptr
  /\ io.repr.ptr + io.repr.len <= io.x.ptr + io.x.len

\* C30: into_inner on IoRepr::new(x) describes the start and length of x, and
\* after advances totalling k <= len the range that starts k bytes later and is
\* len - k bytes long; advances of up to len bytes in all return normally.
C30_RoundTrip ==
  /\ (last.op = "into_inner" /\ io.k <= io.x.len) =>
       /\ last.seen.ptr = io.x.ptr + io.k
       /\ last.seen.len = io.x.len - io.k
  /\ (last.op = "advance" /\ last.pre.k + last.arg <= io.x.len) => ~panicked

\* C31: on the Windows layout a slice made from a range of true length L stores
\* min(L, c_ulong::MAX): never more than L, and for L > c_ulong::MAX the stored
\* length equals L modulo the field's range only when that remainder is
\* c_ulong::MAX itself.
C31_Clamped ==
  (io.repr.layout = "win" /\ last.op = "new") =>
    /\ io.repr.len = min(io.x.len, UlongMax)
    /\ io.repr.len <= io.x.len
    /\ (io.x.len > UlongMax /\ io.repr.len = io.x.len % (UlongMax + 1)) =>
         io.x.len % (UlongMax + 1) = UlongMax

\* C31 as stated: for L > c_ulong::MAX the stored length never equals L modulo
\* the field's range.
C31_AsStated ==
  (io.repr.layout = "win" /\ last.op = "new") =>
    /\ io.repr.len = min(io.x.len, UlongMax)
    /\ io.repr.len <= io.x.len
    /\ io.x.len > UlongMax => io.repr.len # io.x.len % (UlongMax + 1)

\* A Windows slice made from a range longer than the field holds, whose length
\* wrapped would have been something else: the field holds c_ulong::MAX.
C31_Witness ==
  /\ io.repr.layout = "win" /\ last.op = "new"
  /\ io.x.len > UlongMax
  /\ io.x.len % (UlongMax + 1) # UlongMax
  /\ io.repr.len = UlongMax

\* C32: no type over MaybeUninit<u8>, no raw pointer and not the write guard is
\* ReadSafe or MutSafe; MutSafe implies ReadSafe and WriteSafe, WriteSafe
\* implies BytesPtrMut; so as_slice and as_slice_mut are reached only on an
\* IoRepr made from a &[u8] or a &mut [u8].
C32_CapabilitySound ==
  /\ \A t \in BytesPtr :
       (t.elem = "MaybeUninit<u8>" \/ t.ptr \in {"raw", "guard"}) =>
         t \notin ReadSafe /\ t \notin MutSafe
  /\ MutSafe \subseteq ReadSafe \cap WriteSafe
  /\ WriteSafe \subseteq BytesPtrMut
  /\ last.op \in {"as_slice", "as_slice_mut"} =>
       io.x.type \in {Type("ref", FALSE, "u8"), Type("ref", TRUE, "u8")}

\* A &mut [u8] was advanced within its length and then projected as a
\* mutable slice.
C32_Witness ==
  /\ last.op = "as_slice_mut"
  /\ io.x.type = Type("ref", TRUE, "u8")
  /\ io.k > 0 /\ io.repr.len > 0

\* C34: a parse that does not succeed (the closure returned Err, or it
\* over-reported and parse panicked) leaves the cursors, the capacity and the
\* contents as they were, so output_idx <= input_idx still holds.
C34_FailedParseRestores ==
  (last.op = "parse" /\ ~last.ok) =>
    /\ buf = last.pre
    /\ buf.output_idx <= buf.input_idx

\* C35: write_with(max, f) with a report written <= max gives f a slice of
\* min(max, len) cells and leaves the guard len - written cells long, inside its
\* storage: the report never takes the guard past its own length.
C35_WriteWithInBounds ==
  (last.op = "write_with" /\ last.arg.written <= last.arg.max) =>
    /\ Cardinality(last.seen) = min(last.arg.max, last.pre.len)
    /\ ~panicked
    /\ last.arg.written <= last.pre.len
    /\ guard.len = last.pre.len - last.arg.written
    /\ GuardInBounds(guard)

\* C36: clone never panics and yields a buffer whose readable region has the
\* length and the bytes of the original's, the original left as it was.
C36_Clone ==
  last.op = "clone" =>
    /\ ~panicked /\ last.f_ok
    /\ buf = last.pre
    /\ len(last.seen) = len(buf)
    /\ output_slice(last.seen) = output_slice(buf)

\* C37: in every state reached by in-contract calls, a buffer whose readable
\* region is empty (output_idx = input_idx) has both cursors at 0 and offers
\* its whole capacity for writing.
C37_EmptyAtZero ==
  in_contract =>
    (buf.output_idx = buf.input_idx =>
       /\ buf.input_idx = 0 /\ buf.output_idx = 0
       /\ capacity_in(buf) = buf.capacity)

\* C37 witness: a std read took the last readable bytes of a region that did
\* not start at offset 0, and the buffer has capacity to offer.
C37_Witness ==
  /\ in_contract /\ ~panicked
  /\ last.op = "read" /\ last.n > 0 /\ last.pre.output_idx > 0
  /\ buf.output_idx = buf.input_idx
  /\ buf.capacity > 0

\* C38: a LinearBuf and a Buffer taken through the same in-contract calls with
\* the same allocator answers have equal capacity, input_idx, output_idx and
\* equal readable bytes.
C38_SameCursors ==
  in_contract =>
    /\ buf.capacity = twin.capacity
    /\ buf.input_idx = twin.input_idx
    /\ buf.output_idx = twin.output_idx
    /\ (InBounds(buf) /\ last.op # "drop") => output_slice(buf) = output_slice(twin)

\* C38 witness: after a parse that left bytes behind the two agree, while
\* their blocks differ outside the readable region (uninitialized in one,
\* zero in the other).
C38_Witness ==
  /\ in_contract /\ ~panicked
  /\ buf.kind = "LinearBuf" /\ twin.kind = "Buffer"
  /\ last.op = "parse" /\ last.ok /\ last.arg > 0
  /\ buf.output_idx > 0 /\ len(buf) > 0
  /\ output_slice(buf) = output_slice(twin)
  /\ buf.bytes # twin.bytes

\* C39: in a Buffer every byte of the block [0, capacity) is initialized in
\* every reachable state, and the bytes a fresh allocation or a growth adds
\* are zero, also when the block had been larger before.
C39_BufferInitialized ==
  (buf.kind = "Buffer" /\ last.op # "drop") =>
    /\ Len(buf.bytes) = buf.capacity
    /\ \A i \in 1..buf.capacity : buf.bytes[i] # Uninit
    /\ (last.op \in {"with_capacity", "reserve", "slice_mut", "shrink_to_fit"}
          /\ last.alloc = "ok") =>
         \A i \in (last.pre.capacity + 1)..buf.capacity : buf.bytes[i] = 0

\* C39 witness: the block of a Buffer that holds written bytes grew, after
\* more bytes had gone through it than it held before the growth.
C39_Witness ==
  /\ buf.kind = "Buffer"
  /\ last.op \in {"reserve", "slice_mut"} /\ last.alloc = "ok"
  /\ 0 < last.pre.capacity /\ last.pre.capacity < buf.capacity
  /\ len(buf) > 0
  /\ Len(supplied) > last.pre.capacity
  /\ buf.bytes[buf.capacity] = 0

\* C40: the pump loop ends, for every in_rate >= 1 and out_rate >= 1, with the
\* buffer empty and every byte of the source delivered to the sink.
C40_PumpTerminates ==
  <>(/\ pump.pc = "done"
     /\ is_empty(buf)
     /\ consumed = Payload(0, pump.total))

====
